---- MODULE Spec2Model ----
(***************************************************************************)
(* Model of youtube-extract.mjs: the transcript extractor                  *)
(* (extractTranscriptText), the file processor (processTranscript) and the *)
(* command-line entry point (main).                                        *)
(***************************************************************************)
EXTENDS Integers, Sequences, FiniteSets, TLC

\* Longest segment array of the generated documents.
MaxSegs == 3

\* Calls of processTranscript one caller makes in a row.
MaxCalls == 2

\* Independent callers in one process.
NumCallers == 2

VARIABLES
    doc,        \* the document handed to extractTranscriptText
    xres,       \* what extractTranscriptText gave back
    xpc,        \* "ready" before the extraction, "done" after it
    fs,         \* the file system: path -> node
    readonly,   \* the paths that deny writing
    last,       \* the latest processTranscript call and the files before it
    rerun,      \* the call before it, when it had the same two arguments
    count,      \* calls made so far
    argv,       \* the command-line arguments after the script name
    mpc,        \* where main is
    exitCode,   \* the status the process ended with
    stdout,     \* what main printed
    ncalls,     \* processTranscript calls made by main
    frames,     \* the calls of the independent callers
    fs0         \* the file system the run started from

vars ==
    <<doc, xres, xpc, fs, readonly, last, rerun, count, argv, mpc, exitCode, stdout,
      ncalls, frames, fs0>>

(***************************************************************************)
(* JavaScript values as produced by JSON.parse, plus undefined.  A string  *)
(* is the sequence of its characters.                                      *)
(***************************************************************************)
Undef == [t |-> "undefined"]
Null == [t |-> "null"]
Num(n) == [t |-> "number", v |-> n]
Str(s) == [t |-> "string", v |-> s]
Bool(b) == [t |-> "boolean", v |-> b]
Arr(s) == [t |-> "array", v |-> s]
Obj(f) == [t |-> "object", v |-> f]
EmptyMap == [k \in {} |-> Undef]

\* The TypeError raised by a property read on null or undefined.
TypeError == [t |-> "TypeError"]

IsNullish(v) == v.t \in {"undefined", "null"}

\* v.k and v[0] (k = "0"): a plain property read.
Get(v, k) ==
    CASE IsNullish(v) -> TypeError
      [] v.t = "object" -> IF k \in DOMAIN v.v THEN v.v[k] ELSE Undef
      [] v.t = "array" -> IF k = "0" /\ Len(v.v) >= 1 THEN v.v[1] ELSE Undef
      [] v.t = "string" -> IF k = "0" /\ Len(v.v) >= 1 THEN Str(<<v.v[1]>>) ELSE Undef
      [] OTHER -> Undef

\* A chain written with plain reads: it raises on a null or missing link.
PlainGet(v, k) == Get(v, k)

\* v?.k and v?.[0]: the optional read used at every link of both chains.
OptGet(v, k) == IF IsNullish(v) THEN Undef ELSE Get(v, k)

\* A chain of optional reads; a raised TypeError ends the chain.
RECURSIVE Chain(_, _)
Chain(v, keys) ==
    IF keys = <<>> \/ v = TypeError
    THEN v
    ELSE Chain(OptGet(v, Head(keys)), Tail(keys))

SegmentsPath ==
    <<"actions", "0", "updateEngagementPanelAction", "content",
      "transcriptRenderer", "content", "transcriptSearchPanelRenderer", "body",
      "transcriptSegmentListRenderer", "initialSegments">>

TextPath == <<"transcriptSegmentRenderer", "snippet", "runs", "0", "text">>

\* !v is false
Truthy(v) ==
    ~(IsNullish(v) \/ v = Bool(FALSE) \/ v = Num(0) \/ v = Str(<<>>))

IsArray(v) == v.t = "array"

\* A filter that keeps truthy texts only: it drops 0 and false as well.
KeepTruthy(text) == Truthy(text)

\* text != null && text !== ""
KeepText(text) == ~IsNullish(text) /\ text # Str(<<>>)

ExtractErrorLine == "Error extracting transcript:"

\* The try block of extractTranscriptText: the lines, or a raised error.
ExtractTry(jsonData) ==
    LET segments == Chain(jsonData, SegmentsPath)
        mapped == [i \in 1..Len(segments.v) |-> Chain(segments.v[i], TextPath)]
    IN  IF segments = TypeError \/ ~Truthy(segments) \/ ~IsArray(segments)
        THEN [threw |-> TRUE, val |-> <<>>]
        ELSE IF \E i \in 1..Len(segments.v) : mapped[i] = TypeError
             THEN [threw |-> TRUE, val |-> <<>>]
             ELSE [threw |-> FALSE, val |-> SelectSeq(mapped, KeepText)]

\* The catch block of extractTranscriptText.
ExtractCatch(b) == [ret |-> <<>>, log |-> <<ExtractErrorLine>>, raised |-> FALSE]

extractTranscriptText(jsonData) ==
    LET b == ExtractTry(jsonData)
    IN  IF b.threw
        THEN ExtractCatch(b)
        ELSE [ret |-> b.val, log |-> <<>>, raised |-> FALSE]

(***************************************************************************)
(* The documents the extractor is applied to.                              *)
(***************************************************************************)
RECURSIVE Wrap(_, _)
Wrap(keys, v) ==
    IF keys = <<>>
    THEN v
    ELSE IF Head(keys) = "0"
         THEN Arr(<<Wrap(Tail(keys), v)>>)
         ELSE Obj(Head(keys) :> Wrap(Tail(keys), v))

Breakers ==
    {Null, Num(0), Num(5), Str(<<>>), Str(<<"A">>), Bool(TRUE), Bool(FALSE),
     Arr(<<>>), Obj(EmptyMap)}

\* Documents in which the chain to initialSegments breaks after k links.
BrokenDocs ==
    {Wrap(SubSeq(SegmentsPath, 1, k), b) :
        k \in 0..Len(SegmentsPath), b \in Breakers}

Seg(text) == Wrap(TextPath, text)

TextValues ==
    {Null, Str(<<>>), Str(<<"A">>), Str(<<"B">>), Num(5), Num(0), Bool(FALSE),
     Bool(TRUE), Arr(<<>>), Obj(EmptyMap)}

SegShapes ==
    {Seg(x) : x \in TextValues}
    \cup {Null, Num(5), Str(<<"A">>), Obj(EmptyMap),
          Wrap(SubSeq(TextPath, 1, 1), Null),
          Wrap(SubSeq(TextPath, 1, 2), Obj(EmptyMap)),
          Wrap(SubSeq(TextPath, 1, 3), Arr(<<>>)),
          Wrap(SubSeq(TextPath, 1, 3), Str(<<"A", "B">>)),
          Wrap(SubSeq(TextPath, 1, 3), Arr(<<Null>>)),
          Wrap(SubSeq(TextPath, 1, 3), Arr(<<Obj(EmptyMap)>>)),
          Wrap(SubSeq(TextPath, 1, 3),
               Arr(<<Obj("text" :> Str(<<"B">>)), Obj("text" :> Str(<<"A">>))>>)),
          Wrap(SubSeq(TextPath, 1, 3), Obj("0" :> Obj("text" :> Str(<<"B">>))))}

SegSeqs == UNION {[1..n -> SegShapes] : n \in 0..MaxSegs}

SegDocs == {Wrap(SegmentsPath, Arr(s)) : s \in SegSeqs}

\* 'actions' is an object with a key "0" instead of an array.
KeyedDocs ==
    {Obj("actions" :> Obj("0" :> Wrap(SubSeq(SegmentsPath, 3, Len(SegmentsPath)), Arr(<<s>>)))) :
        s \in SegShapes}

Docs == BrokenDocs \cup SegDocs \cup KeyedDocs

(***************************************************************************)
(* Text: a file's content is the sequence of its characters.               *)
(***************************************************************************)
DigitChars == <<"0", "1", "2", "3", "4", "5", "6", "7", "8", "9">>

RECURSIVE Digits(_)
Digits(n) ==
    IF n < 10
    THEN <<DigitChars[n + 1]>>
    ELSE Digits(n \div 10) \o <<DigitChars[(n % 10) + 1]>>

TrueChars == <<"t", "r", "u", "e">>
FalseChars == <<"f", "a", "l", "s", "e">>
NullChars == <<"n", "u", "l", "l">>
UndefinedChars == <<"u", "n", "d", "e", "f", "i", "n", "e", "d">>
ObjectObjectChars ==
    <<"[", "o", "b", "j", "e", "c", "t", " ", "O", "b", "j", "e", "c", "t", "]">>

RECURSIVE ToStr(_), JoinWith(_, _)
\* The string conversion Array.prototype.join applies to an element.
ToStr(v) ==
    CASE v.t = "string" -> v.v
      [] v.t = "number" -> Digits(v.v)
      [] v.t = "boolean" -> (IF v.v THEN TrueChars ELSE FalseChars)
      [] v.t = "array" -> JoinWith(v.v, <<",">>)
      [] v.t = "object" -> ObjectObjectChars
      [] v.t = "null" -> NullChars
      [] OTHER -> UndefinedChars

\* a.join(sep): null and undefined elements give the empty string.
JoinWith(a, sep) ==
    LET piece(x) == IF IsNullish(x) THEN <<>> ELSE ToStr(x)
    IN  IF a = <<>>
        THEN <<>>
        ELSE IF Len(a) = 1
             THEN piece(a[1])
             ELSE piece(a[1]) \o sep \o JoinWith(Tail(a), sep)

KeyChars ==
    ("actions" :> <<"a", "c", "t", "i", "o", "n", "s">>)
    @@ ("0" :> <<"0">>)
    @@ ("updateEngagementPanelAction" :> <<"u", "p", "d", "a", "t", "e", "E",
         "n", "g", "a", "g", "e", "m", "e", "n", "t", "P", "a", "n", "e",
         "l", "A", "c", "t", "i", "o", "n">>)
    @@ ("content" :> <<"c", "o", "n", "t", "e", "n", "t">>)
    @@ ("transcriptRenderer" :> <<"t", "r", "a", "n", "s", "c", "r", "i",
         "p", "t", "R", "e", "n", "d", "e", "r", "e", "r">>)
    @@ ("transcriptSearchPanelRenderer" :> <<"t", "r", "a", "n", "s", "c",
         "r", "i", "p", "t", "S", "e", "a", "r", "c", "h", "P", "a", "n",
         "e", "l", "R", "e", "n", "d", "e", "r", "e", "r">>)
    @@ ("body" :> <<"b", "o", "d", "y">>)
    @@ ("transcriptSegmentListRenderer" :> <<"t", "r", "a", "n", "s", "c",
         "r", "i", "p", "t", "S", "e", "g", "m", "e", "n", "t", "L", "i",
         "s", "t", "R", "e", "n", "d", "e", "r", "e", "r">>)
    @@ ("initialSegments" :> <<"i", "n", "i", "t", "i", "a", "l", "S", "e",
         "g", "m", "e", "n", "t", "s">>)
    @@ ("transcriptSegmentRenderer" :> <<"t", "r", "a", "n", "s", "c", "r",
         "i", "p", "t", "S", "e", "g", "m", "e", "n", "t", "R", "e", "n",
         "d", "e", "r", "e", "r">>)
    @@ ("snippet" :> <<"s", "n", "i", "p", "p", "e", "t">>)
    @@ ("runs" :> <<"r", "u", "n", "s">>)
    @@ ("text" :> <<"t", "e", "x", "t">>)

EscapeChar(c) ==
    IF c = "\"" THEN <<"\\", "\"">>
    ELSE IF c = "\\" THEN <<"\\", "\\">>
    ELSE IF c = "\n" THEN <<"\\", "n">>
    ELSE <<c>>

RECURSIVE Escape(_)
Escape(s) == IF s = <<>> THEN <<>> ELSE EscapeChar(Head(s)) \o Escape(Tail(s))

Quote(s) == <<"\"">> \o Escape(s) \o <<"\"">>

\* The JSON text of a value, written without white space.
RECURSIVE Stringify(_), StringifyItems(_), StringifyMembers(_, _)
Stringify(v) ==
    CASE v.t = "null" -> NullChars
      [] v.t = "number" -> Digits(v.v)
      [] v.t = "boolean" -> (IF v.v THEN TrueChars ELSE FalseChars)
      [] v.t = "string" -> Quote(v.v)
      [] v.t = "array" -> <<"[">> \o StringifyItems(v.v) \o <<"]">>
      [] v.t = "object" -> <<"{">> \o StringifyMembers(v.v, DOMAIN v.v) \o <<"}">>

StringifyItems(a) ==
    IF a = <<>>
    THEN <<>>
    ELSE IF Len(a) = 1
         THEN Stringify(a[1])
         ELSE Stringify(a[1]) \o <<",">> \o StringifyItems(Tail(a))

StringifyMembers(f, ks) ==
    IF ks = {}
    THEN <<>>
    ELSE LET k == CHOOSE x \in ks : TRUE
             m == Quote(KeyChars[k]) \o <<":">> \o Stringify(f[k])
         IN  IF ks = {k} THEN m ELSE m \o <<",">> \o StringifyMembers(f, ks \ {k})

\* The documents found in input files.
TwoLineDoc ==
    Wrap(SegmentsPath,
         Arr(<<Seg(Str(<<"A">>)), Obj(EmptyMap), Seg(Str(<<>>)), Seg(Str(<<"B">>))>>))
OneLineDoc == Wrap(SegmentsPath, Arr(<<Seg(Str(<<"B">>))>>))
NumberDoc == Wrap(SegmentsPath, Arr(<<Seg(Num(5))>>))
BlankFirstDoc == Wrap(SegmentsPath, Arr(<<Seg(Arr(<<>>)), Seg(Num(5))>>))
EmptyDoc == Wrap(SegmentsPath, Arr(<<>>))
NoSegmentsDoc == Wrap(SubSeq(SegmentsPath, 1, 9), Obj(EmptyMap))

FileDocs ==
    {TwoLineDoc, OneLineDoc, NumberDoc, BlankFirstDoc, EmptyDoc, NoSegmentsDoc}

\* The values whose JSON text a file of the model can hold.
JsonUniverse ==
    FileDocs \cup {Null, Num(0), Num(5), Bool(TRUE), Bool(FALSE), Str(<<"A">>),
                   Arr(<<>>), Obj(EmptyMap)}

JsonText == [v \in JsonUniverse |-> Stringify(v)]

IsWs(c) == c \in {" ", "\n", "\t", "\r"}

RECURSIVE TrimWs(_)
TrimWs(s) ==
    IF s # <<>> /\ IsWs(s[1]) THEN TrimWs(Tail(s))
    ELSE IF s # <<>> /\ IsWs(s[Len(s)]) THEN TrimWs(SubSeq(s, 1, Len(s) - 1))
    ELSE s

\* JSON.parse: white space around the value is skipped; a text that is the
\* JSON text of no value is a syntax error.
JSONparse(text) ==
    LET hits == {v \in JsonUniverse : JsonText[v] = TrimWs(text)}
    IN  IF hits = {}
        THEN [ok |-> FALSE, val |-> Undef]
        ELSE [ok |-> TRUE, val |-> CHOOSE v \in hits : TRUE]

MalformedText == <<"{", "n", "o", "t", " ", "j", "s", "o", "n">>
OldText == <<"o", "l", "d">>

(***************************************************************************)
(* Paths and the file system.  A path is the sequence of its components;   *)
(* the process runs in the root directory.                                 *)
(***************************************************************************)
Cwd == <<>>

RECURSIVE Normalize(_, _)
Normalize(acc, parts) ==
    IF parts = <<>>
    THEN acc
    ELSE LET p == Head(parts)
             next == IF p \in {".", ""} THEN acc
                     ELSE IF p = ".."
                          THEN (IF acc = <<>> THEN acc ELSE SubSeq(acc, 1, Len(acc) - 1))
                          ELSE Append(acc, p)
         IN  Normalize(next, Tail(parts))

\* path.resolve(p)
PathResolve(p) == Normalize(Cwd, p)

\* path.dirname(p) of a resolved path
Dirname(p) == IF p = <<>> THEN p ELSE SubSeq(p, 1, Len(p) - 1)

AllPaths ==
    {<<>>, <<"in">>, <<"out">>, <<"d">>, <<"d", "out">>, <<"d", "e">>,
     <<"d", "e", "out">>}

NoNode == [k |-> "none"]
DirNode == [k |-> "dir"]
FileNode(c) == [k |-> "file", c |-> c]

existsSync(f, p) == f[p].k # "none"

\* fs.readFileSync(p, "utf8"): reading a directory fails.
readFileSync(f, p) ==
    IF f[p].k = "file"
    THEN [ok |-> TRUE, text |-> f[p].c]
    ELSE [ok |-> FALSE, text |-> <<>>]

\* fs.mkdirSync(dir, {recursive: true}), the first n components being there:
\* a component that is a file, or a missing one under a read-only parent,
\* makes it fail.
RECURSIVE MkdirFrom(_, _, _, _)
MkdirFrom(f, ro, dir, n) ==
    IF n = Len(dir)
    THEN [ok |-> TRUE, fs |-> f]
    ELSE LET q == SubSeq(dir, 1, n + 1)
         IN  CASE f[q].k = "dir" -> MkdirFrom(f, ro, dir, n + 1)
               [] f[q].k = "file" -> [ok |-> FALSE, fs |-> f]
               [] OTHER ->
                    IF SubSeq(dir, 1, n) \in ro
                    THEN [ok |-> FALSE, fs |-> f]
                    ELSE MkdirFrom([f EXCEPT ![q] = DirNode], ro, dir, n + 1)

mkdirSync(f, ro, dir) == MkdirFrom(f, ro, dir, 0)

\* A write that appends to the file that is there.
AppendFile(f, ro, p, text) ==
    IF f[p].k = "dir" \/ f[Dirname(p)].k # "dir"
    THEN [ok |-> FALSE, fs |-> f]
    ELSE IF f[p].k = "file"
         THEN IF p \in ro
              THEN [ok |-> FALSE, fs |-> f]
              ELSE [ok |-> TRUE, fs |-> [f EXCEPT ![p] = FileNode(f[p].c \o text)]]
         ELSE IF Dirname(p) \in ro
              THEN [ok |-> FALSE, fs |-> f]
              ELSE [ok |-> TRUE, fs |-> [f EXCEPT ![p] = FileNode(text)]]

\* fs.writeFileSync(p, text, "utf8"): replaces the content; fails on a
\* directory, under a missing or non-directory parent, on a read-only file
\* and when the file is new and its directory is read-only.
writeFileSync(f, ro, p, text) ==
    IF f[p].k = "dir" \/ f[Dirname(p)].k # "dir"
    THEN [ok |-> FALSE, fs |-> f]
    ELSE IF f[p].k = "file"
         THEN IF p \in ro
              THEN [ok |-> FALSE, fs |-> f]
              ELSE [ok |-> TRUE, fs |-> [f EXCEPT ![p] = FileNode(text)]]
         ELSE IF Dirname(p) \in ro
              THEN [ok |-> FALSE, fs |-> f]
              ELSE [ok |-> TRUE, fs |-> [f EXCEPT ![p] = FileNode(text)]]

(***************************************************************************)
(* processTranscript.  A call is a frame that is taken through the         *)
(* statements of the function body; the body has no await, so a call runs  *)
(* from its first statement to its return without giving up the thread.    *)
(***************************************************************************)
ReadingLine == "Reading file:"
ProcessErrorLine == "Error processing transcript:"
SuccessLine == "Successfully extracted"
SavedLine == "Transcript saved to:"

NewFrame(inp, out) ==
    [pc |-> "resolve", inp |-> inp, out |-> out, rin |-> <<>>, rout |-> <<>>,
     content |-> <<>>, json |-> Undef, lines |-> <<>>, ret |-> FALSE,
     escaped |-> FALSE, err |-> "none", log |-> <<>>, io |-> 0]

\* A catch that covers the function up to the extraction only: an error of
\* the directory creation or of the write leaves the call as a fault.
ProcCatchBeforeWrite(f, e) ==
    IF e \in {"MkdirFailed", "WriteFailed"}
    THEN [f EXCEPT !.pc = "returned", !.escaped = TRUE, !.err = e]
    ELSE [f EXCEPT !.pc = "returned", !.ret = FALSE, !.err = e,
                   !.log = Append(@, ProcessErrorLine)]

\* A catch block that reports success.
ProcCatchTrue(f, e) ==
    [f EXCEPT !.pc = "returned", !.ret = TRUE, !.err = e,
              !.log = Append(@, ProcessErrorLine)]

\* catch (error) { console.error(...); return false; } around the whole body
ProcCatch(f, e) ==
    [f EXCEPT !.pc = "returned", !.ret = FALSE, !.err = e,
              !.log = Append(@, ProcessErrorLine)]

\* A check that lets an empty transcript through.
NeverEmpty(lines) == FALSE

\* transcriptLines.length === 0
LinesEmpty(lines) == Len(lines) = 0

\* The text with a newline after every line, the last one included.
TranscriptTextTrailing(lines) ==
    IF lines = <<>> THEN <<>> ELSE JoinWith(lines, <<"\n">>) \o <<"\n">>

\* transcriptLines.join("\n")
TranscriptText(lines) == JoinWith(lines, <<"\n">>)

\* One statement group of the body, on the files f with read-only paths ro.
Step(fr, f, ro) ==
    CASE fr.pc = "resolve" ->
            [f |-> [fr EXCEPT !.pc = "exists",
                              !.rin = PathResolve(fr.inp),
                              !.rout = PathResolve(fr.out)],
             fs |-> f]
      [] fr.pc = "exists" ->
            LET g == [fr EXCEPT !.io = @ + 1]
            IN  IF ~existsSync(f, fr.rin)
                THEN [f |-> ProcCatch(g, "InputNotFound"), fs |-> f]
                ELSE [f |-> [g EXCEPT !.pc = "read"], fs |-> f]
      [] fr.pc = "read" ->
            LET g == [fr EXCEPT !.io = @ + 1, !.log = Append(@, ReadingLine)]
                r == readFileSync(f, fr.rin)
            IN  IF ~r.ok
                THEN [f |-> ProcCatch(g, "ReadFailed"), fs |-> f]
                ELSE [f |-> [g EXCEPT !.pc = "parse", !.content = r.text], fs |-> f]
      [] fr.pc = "parse" ->
            LET r == JSONparse(fr.content)
            IN  IF ~r.ok
                THEN [f |-> ProcCatch(fr, "ParseFailed"), fs |-> f]
                ELSE [f |-> [fr EXCEPT !.pc = "extract", !.json = r.val], fs |-> f]
      [] fr.pc = "extract" ->
            LET r == extractTranscriptText(fr.json)
                g == [fr EXCEPT !.lines = r.ret, !.log = @ \o r.log]
            IN  IF r.raised
                THEN [f |-> ProcCatch(g, "ExtractRaised"), fs |-> f]
                ELSE IF LinesEmpty(r.ret)
                     THEN [f |-> ProcCatch(g, "NoLines"), fs |-> f]
                     ELSE [f |-> [g EXCEPT !.pc = "mkdir"], fs |-> f]
      [] fr.pc = "mkdir" ->
            LET outputDir == Dirname(fr.rout)
            IN  IF existsSync(f, outputDir)
                THEN [f |-> [fr EXCEPT !.pc = "write", !.io = @ + 1], fs |-> f]
                ELSE LET r == mkdirSync(f, ro, outputDir)
                         g == [fr EXCEPT !.io = @ + 2]
                     IN  IF ~r.ok
                         THEN [f |-> ProcCatch(g, "MkdirFailed"), fs |-> r.fs]
                         ELSE [f |-> [g EXCEPT !.pc = "write"], fs |-> r.fs]
      [] fr.pc = "write" ->
            LET r == writeFileSync(f, ro, fr.rout, TranscriptText(fr.lines))
                g == [fr EXCEPT !.io = @ + 1]
            IN  IF ~r.ok
                THEN [f |-> ProcCatch(g, "WriteFailed"), fs |-> r.fs]
                ELSE [f |-> [g EXCEPT !.pc = "returned", !.ret = TRUE,
                                      !.log = @ \o <<SuccessLine, SavedLine>>],
                      fs |-> r.fs]
      [] OTHER -> [f |-> fr, fs |-> f]

\* A whole call: the statements one after the other, up to the return.
RECURSIVE RunCall(_, _, _)
RunCall(fr, f, ro) ==
    IF fr.pc = "returned"
    THEN [f |-> fr, fs |-> f]
    ELSE LET s == Step(fr, f, ro) IN RunCall(s.f, s.fs, ro)

processTranscript(inp, out, f, ro) == RunCall(NewFrame(inp, out), f, ro)

(***************************************************************************)
(* The file systems a run starts from and the path arguments.              *)
(***************************************************************************)
InputTexts == {JsonText[d] : d \in FileDocs \ {OneLineDoc}} \cup {MalformedText}

InNodes == {NoNode} \cup {FileNode(c) : c \in InputTexts}
OutNodes == {NoNode, FileNode(OldText)}
DNodes == {NoNode, DirNode, FileNode(JsonText[OneLineDoc])}

MkFS(i, o, d, x, e, y) ==
    (<<>> :> DirNode) @@ (<<"in">> :> i) @@ (<<"out">> :> o) @@ (<<"d">> :> d)
    @@ (<<"d", "out">> :> x) @@ (<<"d", "e">> :> e) @@ (<<"d", "e", "out">> :> y)

\* Every entry lies in a directory.
WellFormed(f) ==
    \A p \in AllPaths : (p # <<>> /\ f[p].k # "none") => f[Dirname(p)].k = "dir"

InitFileSystems ==
    {f \in {MkFS(t[1], t[2], t[3], t[4], t[5], t[6]) :
                t \in InNodes \X OutNodes \X DNodes \X OutNodes
                      \X {NoNode, DirNode} \X {NoNode}} :
        WellFormed(f)}

\* The path arguments, as the caller writes them.
InputArgs == {<<"in">>, <<".", "in">>, <<"d">>}
OutputArgs ==
    {<<"in">>, <<"d", "..", "out">>, <<"d">>, <<"d", "out">>, <<"d", "e", "out">>}

NoResult == [ret |-> <<>>, log |-> <<>>, raised |-> FALSE]

(***************************************************************************)
(* Parts of the state a specification leaves idle.                         *)
(***************************************************************************)
NoCall(f) == [called |-> FALSE, f |-> NewFrame(<<>>, <<>>), before |-> f]
NoRerun == [valid |-> FALSE, ret |-> FALSE, node |-> NoNode]

ReadOnlyChoices(f) ==
    {{}} \cup {{p} : p \in {q \in AllPaths : f[q].k # "none"}}

IdleExtract == doc = Null /\ xres = NoResult /\ xpc = "off"
IdleCalls == last = NoCall(fs) /\ rerun = NoRerun /\ count = 0
IdleMain ==
    argv = <<>> /\ mpc = "off" /\ exitCode = -1 /\ stdout = <<>> /\ ncalls = 0
IdleCallers == frames = <<>>

extractVars == <<doc, xres, xpc>>
fileVars == <<fs, readonly, fs0>>
callVars == <<last, rerun, count>>
mainVars == <<argv, mpc, exitCode, stdout, ncalls>>
callerVars == <<frames>>

(***************************************************************************)
(* The extractor applied to one document.                                  *)
(***************************************************************************)
InitExtract ==
    /\ doc \in Docs
    /\ xres = NoResult
    /\ xpc = "ready"
    /\ fs = MkFS(NoNode, NoNode, NoNode, NoNode, NoNode, NoNode)
    /\ readonly = {}
    /\ fs0 = fs
    /\ IdleCalls /\ IdleMain /\ IdleCallers

Extract ==
    /\ xpc = "ready"
    /\ xres' = extractTranscriptText(doc)
    /\ xpc' = "done"
    /\ UNCHANGED <<doc, fileVars, callVars, mainVars, callerVars>>

NextExtract == Extract

SpecExtract == InitExtract /\ [][NextExtract]_vars

(***************************************************************************)
(* processTranscript called again and again by one caller.                 *)
(***************************************************************************)
Init ==
    /\ IdleExtract
    /\ fs \in InitFileSystems
    /\ readonly \in ReadOnlyChoices(fs)
    /\ fs0 = fs
    /\ IdleCalls /\ IdleMain /\ IdleCallers

Call(inp, out) ==
    LET r == processTranscript(inp, out, fs, readonly)
    IN  /\ count < MaxCalls
        /\ count' = count + 1
        /\ fs' = r.fs
        /\ last' = [called |-> TRUE, f |-> r.f, before |-> fs]
        /\ rerun' = IF last.called /\ last.f.inp = inp /\ last.f.out = out
                    THEN [valid |-> TRUE, ret |-> last.f.ret,
                          node |-> fs[PathResolve(out)]]
                    ELSE NoRerun
        /\ UNCHANGED <<readonly, fs0, extractVars, mainVars, callerVars>>

Next == \E inp \in InputArgs, out \in OutputArgs : Call(inp, out)

Spec == Init /\ [][Next]_vars

(***************************************************************************)
(* main: the script run as a command.                                      *)
(***************************************************************************)
UsageLine == "Usage: node transcript-extractor.js <input-json-file> <output-txt-file>"
ExampleLine == "Example: node transcript-extractor.js input.json transcript.txt"

ArgLists ==
    {<<>>}
    \cup {<<i>> : i \in InputArgs}
    \cup {<<i, o>> : i \in InputArgs, o \in OutputArgs}
    \cup {<<i, o, <<"d">>>> : i \in InputArgs, o \in OutputArgs}

\* A check that only asks for enough arguments.
ArgsAtLeastTwo(args) == Len(args) >= 2

\* !(args.length !== 2)
ArgsOk(args) == Len(args) = 2

InitMain ==
    /\ IdleExtract
    /\ fs \in InitFileSystems
    /\ readonly \in ReadOnlyChoices(fs)
    /\ fs0 = fs
    /\ IdleCalls /\ IdleCallers
    /\ argv \in ArgLists
    /\ mpc = "start"
    /\ exitCode = -1
    /\ stdout = <<>>
    /\ ncalls = 0

\* The usage text and process.exit(1), which ends the process there.
MainUsage ==
    /\ mpc = "start"
    /\ ~ArgsOk(argv)
    /\ stdout' = <<UsageLine, ExampleLine>>
    /\ exitCode' = 1
    /\ mpc' = "exited"
    /\ UNCHANGED <<argv, ncalls, fileVars, callVars, extractVars, callerVars>>

\* const success = await processTranscript(inputFile, outputFile)
MainProcess ==
    /\ mpc = "start"
    /\ ArgsOk(argv)
    /\ LET r == processTranscript(argv[1], argv[2], fs, readonly)
       IN  /\ fs' = r.fs
           /\ last' = [called |-> TRUE, f |-> r.f, before |-> fs]
    /\ ncalls' = ncalls + 1
    /\ mpc' = "awaited"
    /\ UNCHANGED <<argv, exitCode, stdout, readonly, fs0, rerun, count,
                   extractVars, callerVars>>

\* process.exit(success ? 0 : 1); a rejected await ends the process with 1.
MainExit ==
    /\ mpc = "awaited"
    /\ exitCode' = IF last.f.escaped THEN 1 ELSE IF last.f.ret THEN 0 ELSE 1
    /\ mpc' = "exited"
    /\ UNCHANGED <<argv, stdout, ncalls, fileVars, callVars, extractVars,
                   callerVars>>

NextMain == MainUsage \/ MainProcess \/ MainExit

SpecMain == InitMain /\ [][NextMain]_vars

(***************************************************************************)
(* Independent callers in one process, none awaiting another.              *)
(***************************************************************************)
Callers == 1..NumCallers

IdleFrame == [NewFrame(<<>>, <<>>) EXCEPT !.pc = "idle"]

InFlight == {c \in DOMAIN frames : frames[c].pc \notin {"idle", "returned"}}

\* A body that gives up the thread between its statements.
MayStartAnytime(busy) == TRUE

\* The body of processTranscript has no await: a call that was started is
\* run to its return before anything else of the process runs.
MayStart(busy) == busy = {}

CallerArgs ==
    {<<<<"in">>, <<"d">>>>, <<<<"in">>, <<"d", "out">>>>,
     <<<<".", "in">>, <<"d", "e", "out">>>>, <<<<"in">>, <<"in">>>>,
     <<<<"d">>, <<"d", "..", "out">>>>}

CallerFileSystems ==
    {f \in InitFileSystems :
        /\ f[<<"in">>] \in {FileNode(JsonText[TwoLineDoc]),
                            FileNode(JsonText[NumberDoc]),
                            FileNode(JsonText[NoSegmentsDoc])}
        /\ f[<<"d", "out">>] = NoNode
        /\ f[<<"d", "e">>] = NoNode}

InitCallers ==
    /\ IdleExtract
    /\ fs \in CallerFileSystems
    /\ readonly \in {{}, {<<>>}}
    /\ fs0 = fs
    /\ IdleCalls /\ IdleMain
    /\ frames = [c \in Callers |-> IdleFrame]

Begin(c, inp, out) ==
    /\ frames[c].pc = "idle"
    /\ MayStart(InFlight)
    /\ frames' = [frames EXCEPT ![c] = NewFrame(inp, out)]
    /\ UNCHANGED <<fileVars, callVars, mainVars, extractVars>>

Advance(c) ==
    /\ c \in InFlight
    /\ LET s == Step(frames[c], fs, readonly)
       IN  /\ frames' = [frames EXCEPT ![c] = s.f]
           /\ fs' = s.fs
    /\ UNCHANGED <<readonly, fs0, callVars, mainVars, extractVars>>

NextCallers ==
    \E c \in Callers :
        \/ \E a \in CallerArgs : Begin(c, a[1], a[2])
        \/ Advance(c)

SpecCallers == InitCallers /\ [][NextCallers]_vars

(***************************************************************************)
(* What a chain resolves to, stated on the shape of the document: a total  *)
(* lookup that yields undefined at any link that is absent.                *)
(***************************************************************************)
Lookup(v, k) ==
    IF v.t = "object"
    THEN IF k \in DOMAIN v.v THEN v.v[k] ELSE Undef
    ELSE IF k = "0" /\ v.t \in {"array", "string"} /\ v.v # <<>>
         THEN IF v.t = "array" THEN Head(v.v) ELSE Str(<<Head(v.v)>>)
         ELSE Undef

RECURSIVE Resolved(_, _)
Resolved(v, keys) ==
    IF keys = <<>> THEN v ELSE Resolved(Lookup(v, Head(keys)), Tail(keys))

SegmentsOf(d) == Resolved(d, SegmentsPath)

RECURSIVE ValidTexts(_)
ValidTexts(segs) ==
    IF segs = <<>>
    THEN <<>>
    ELSE LET x == Resolved(Head(segs), TextPath)
         IN  (IF x \in {Undef, Null, Str(<<>>)} THEN <<>> ELSE <<x>>)
             \o ValidTexts(Tail(segs))

\* C3: when initialSegments resolves to an array, the result is exactly the
\* subsequence, in document order, of the segments' runs[0].text values that
\* are neither null/undefined nor the empty string.
C3_OrderedSubsequence ==
    (xpc = "done" /\ IsArray(SegmentsOf(doc)))
        => xres.ret = ValidTexts(SegmentsOf(doc).v)

\* A valid text, an invalid segment, a valid text: both kept, in order.
C3_Witness ==
    /\ xpc = "done"
    /\ IsArray(SegmentsOf(doc))
    /\ Len(SegmentsOf(doc).v) = 3
    /\ Resolved(SegmentsOf(doc).v[2], TextPath) \in {Undef, Null, Str(<<>>)}
    /\ xres.ret = <<Str(<<"B">>), Str(<<"A">>)>>

\* C6: the extractor never raises; it returns the empty sequence whenever
\* initialSegments does not resolve to an array, and it logs a diagnostic in
\* exactly that case.
C6_NeverRaisesLogsOnlyAbsent ==
    xpc = "done"
        => /\ ~xres.raised
           /\ (~IsArray(SegmentsOf(doc)) => xres.ret = <<>>)
           /\ (xres.log # <<>>) <=> ~IsArray(SegmentsOf(doc))

\* Both sides happen: a document without segments is logged, and a segment
\* array whose members are all dropped is not.
C6_Witness ==
    /\ xpc = "done"
    /\ ~IsArray(SegmentsOf(doc))
    /\ doc.t = "object"
    /\ xres.log = <<ExtractErrorLine>>
    /\ xres.ret = <<>>

\* C7: every element of the returned sequence is a non-empty string.
C7_AllNonEmptyStrings ==
    xpc = "done"
        => \A i \in 1..Len(xres.ret) :
              xres.ret[i].t = "string" /\ xres.ret[i].v # <<>>

(***************************************************************************)
(* The latest call, described from the files it started on.                *)
(***************************************************************************)
InputPathOf(c) == PathResolve(c.f.inp)
OutputPathOf(c) == PathResolve(c.f.out)

InputMissing(c) == c.before[InputPathOf(c)].k = "none"

InputIsFile(c) == c.before[InputPathOf(c)].k = "file"

ParsedInput(c) == JSONparse(c.before[InputPathOf(c)].c)

InputUnparseable(c) == InputIsFile(c) /\ ~ParsedInput(c).ok

ExtractedLines(c) == extractTranscriptText(ParsedInput(c).val).ret

ExtractedNothing(c) ==
    InputIsFile(c) /\ ParsedInput(c).ok /\ ExtractedLines(c) = <<>>

FileSystemErrors == {"ReadFailed", "MkdirFailed", "WriteFailed"}

\* The lines, each followed by a newline but for the last.
RECURSIVE ExpectedText(_)
ExpectedText(lines) ==
    IF lines = <<>>
    THEN <<>>
    ELSE IF Len(lines) = 1
         THEN ToStr(lines[1])
         ELSE ExpectedText(SubSeq(lines, 1, Len(lines) - 1))
              \o <<"\n">> \o ToStr(lines[Len(lines)])

\* C1: a call that meets a missing input, an unparseable input or an empty
\* extraction returns false and leaves every file and directory as it was.
C1_FailureLeavesFilesAlone ==
    (last.called
     /\ (InputMissing(last) \/ InputUnparseable(last) \/ ExtractedNothing(last)))
        => /\ ~last.f.escaped
           /\ last.f.ret = FALSE
           /\ fs = last.before

\* An empty extraction with an output directory that was not there.
C1_Witness ==
    /\ last.called
    /\ ExtractedNothing(last)
    /\ last.before[Dirname(OutputPathOf(last))].k = "none"
    /\ last.f.ret = FALSE
    /\ fs[Dirname(OutputPathOf(last))].k = "none"

\* C2: a call whose input exists, parses and yields lines, and in which no
\* file-system operation fails, returns true and leaves at the output path
\* exactly the lines joined by single newlines, whatever was there before.
C2_OutputIsJoinedLines ==
    (last.called /\ InputIsFile(last) /\ ParsedInput(last).ok
     /\ ExtractedLines(last) # <<>>
     /\ last.f.err \notin FileSystemErrors)
        => /\ last.f.ret = TRUE
           /\ fs[OutputPathOf(last)] = FileNode(ExpectedText(ExtractedLines(last)))

\* Two lines written over an older output file.
C2_Witness ==
    /\ last.called
    /\ last.f.ret = TRUE
    /\ last.before[OutputPathOf(last)] = FileNode(OldText)
    /\ fs[OutputPathOf(last)] = FileNode(<<"A", "\n", "B">>)

\* C4: no error leaves processTranscript: every call ends with a boolean,
\* and every failure ends with false and the logged diagnostic.
C4_NoErrorEscapes ==
    last.called
        => /\ last.f.pc = "returned"
           /\ ~last.f.escaped
           /\ (last.f.err # "none"
                 => /\ last.f.ret = FALSE
                    /\ last.f.log # <<>>
                    /\ last.f.log[Len(last.f.log)] = ProcessErrorLine)
           /\ (last.f.err = "none" => last.f.ret = TRUE)

\* The directory creation failed under a read-only directory.
C4_Witness ==
    /\ last.called
    /\ last.f.err = "MkdirFailed"
    /\ readonly # {}
    /\ last.f.ret = FALSE
    /\ ~last.f.escaped

\* C5 as stated: a failure of the directory creation or of the write is
\* not caught and leaves the call as a fault, without the result false.
C5_WriteFailureEscapes ==
    (last.called /\ last.f.err \in {"MkdirFailed", "WriteFailed"})
        => last.f.escaped

\* C5, amended: a failure of the directory creation or of the write is
\* caught by the catch block of processTranscript: the call logs the
\* diagnostic and returns false.
C5_WriteFailureReturnsFalse ==
    (last.called /\ last.f.err \in {"MkdirFailed", "WriteFailed"})
        => /\ ~last.f.escaped
           /\ last.f.ret = FALSE
           /\ ProcessErrorLine \in {last.f.log[i] : i \in 1..Len(last.f.log)}

\* The write failed on a read-only output file, which kept its content.
C5_Witness ==
    /\ last.called
    /\ last.f.err = "WriteFailed"
    /\ OutputPathOf(last) \in readonly
    /\ last.f.ret = FALSE
    /\ fs[OutputPathOf(last)] = last.before[OutputPathOf(last)]

\* C8 as stated: two calls in a row with the same two arguments give the
\* same result and leave the same content at the output path.
C8_RerunSame ==
    rerun.valid
        => /\ last.f.ret = rerun.ret
           /\ fs[OutputPathOf(last)] = rerun.node

\* C8, amended: the same, when the output path does not resolve to the
\* input path.
C8_RerunSameDistinctPaths ==
    (rerun.valid /\ InputPathOf(last) # OutputPathOf(last))
        => /\ last.f.ret = rerun.ret
           /\ fs[OutputPathOf(last)] = rerun.node

\* Two successful runs in a row.
C8_Witness ==
    /\ rerun.valid
    /\ InputPathOf(last) # OutputPathOf(last)
    /\ rerun.ret = TRUE
    /\ last.f.ret = TRUE
    /\ fs[OutputPathOf(last)].k = "file"

\* C9: with an argument count other than two, main prints the usage text,
\* exits with 1 and does no file I/O; with two arguments it calls
\* processTranscript once and exits with 0 exactly when the call gave true.
C9_MainExitStatus ==
    /\ ncalls <= 1
    /\ (Len(argv) # 2 => (ncalls = 0 /\ ~last.called /\ fs = fs0))
    /\ mpc = "exited"
         => IF Len(argv) # 2
            THEN exitCode = 1 /\ stdout = <<UsageLine, ExampleLine>>
            ELSE /\ ncalls = 1
                 /\ last.called
                 /\ last.f.inp = argv[1] /\ last.f.out = argv[2]
                 /\ exitCode \in {0, 1}
                 /\ (exitCode = 0) <=> (last.f.ret = TRUE)

\* Three arguments: the usage text and status 1, nothing read or written.
C9_Witness ==
    /\ mpc = "exited"
    /\ Len(argv) = 3
    /\ exitCode = 1
    /\ fs[PathResolve(argv[1])].k = "file"
    /\ stdout = <<UsageLine, ExampleLine>>
    /\ ncalls = 0

(***************************************************************************)
(* Independent callers.                                                    *)
(***************************************************************************)
AllReturned == \A c \in DOMAIN frames : frames[c].pc = "returned"

Alone(c) == processTranscript(frames[c].inp, frames[c].out, fs0, readonly)

SameAsAlone ==
    \A c \in DOMAIN frames :
        /\ frames[c].ret = Alone(c).f.ret
        /\ fs[frames[c].rout] = Alone(c).fs[frames[c].rout]

IsPrefix(p, q) == Len(p) <= Len(q) /\ SubSeq(q, 1, Len(p)) = p

DistinctOutputs ==
    \A c, d \in DOMAIN frames : c # d => frames[c].rout # frames[d].rout

\* No output path is another call's input path, and no output path lies
\* at or under another call's output path.
UnrelatedPaths ==
    \A c, d \in DOMAIN frames :
        c # d => /\ frames[c].rout # frames[d].rin
                 /\ ~IsPrefix(frames[c].rout, frames[d].rout)

\* C10 as stated: calls with different output paths give each the result
\* and the output content of the call run alone.
C10_DistinctOutputsSameAsAlone ==
    (frames # <<>> /\ AllReturned /\ DistinctOutputs) => SameAsAlone

\* C10, amended: the statements of two calls never interleave, and each
\* call gives the result and the output content of the call run alone when
\* no output path is another call's input path and no output path lies at
\* or under another call's output path.
C10_UnrelatedPathsSameAsAlone ==
    /\ Cardinality(InFlight) <= 1
    /\ (frames # <<>> /\ AllReturned /\ UnrelatedPaths) => SameAsAlone

\* Two calls that both wrote their file, one under a directory the other
\* call's output also lies under.
C10_Witness ==
    /\ frames # <<>>
    /\ AllReturned
    /\ UnrelatedPaths
    /\ \A c \in DOMAIN frames : frames[c].ret = TRUE
    /\ \E c, d \in DOMAIN frames :
          /\ frames[c].rout = <<"d", "out">>
          /\ frames[d].rout = <<"d", "e", "out">>

====
